---- MODULE Spec2Model ----
(***************************************************************************)
(* A model of the CHIP-8 emulator 0xlay/chip8-emu: the memory (Ram), the   *)
(* register file, the display grid, the keyboard and the fetch / decode /  *)
(* execute loop of Chip8::run with every instruction handler.              *)
(*                                                                         *)
(* Representation.  Ram.data ([u8; 4096]) and Display.grid ([u8; 2048])    *)
(* are kept as finite functions over the cells that have been stored to;   *)
(* a cell outside the domain holds the 0 both arrays are created with.     *)
(* Every read goes through read_byte / get_pixel, which supply that 0.     *)
(***************************************************************************)
EXTENDS Integers, Sequences, FiniteSets, TLC

VARIABLES
    pc,           \* registers.pc : u16
    i,            \* registers.i  : u16
    v,            \* registers.v  : [u8; 16]
    sp,           \* registers.sp : the call stack (push / pop)
    dt,           \* registers.dt : u8, the base of the delay timer
    ram,          \* ram.data
    grid,         \* display.grid
    key,          \* keyboard.key : u8
    delay_timer,  \* Chip8.delay_timer : the Instant of the last set, in ms
    now,          \* the wall clock in ms, as of its last reading
    status,       \* where run() is: "Poll", "Run", or how it ended
    opcode,       \* run()'s local `opcode` of the last fetch
    instruction,  \* run()'s local `instruction` of the last decode
    polled,       \* the events poll_iter() yielded in this cycle of run()
    api           \* the last call made on a Ram by itself, and its result

vars == <<pc, i, v, sp, dt, ram, grid, key, delay_timer, now, status, opcode, instruction,
          polled, api>>

----------------------------------------------------------------------------
(* Program constants.                                                      *)

RAM_SIZE == 4096
RESERVED_SIZE == 80
DEFAULT_PROGRAM_START_OFFSET == 512
WORD_SIZE == 2
GRID_WIDTH == 64
GRID_HEIGHT == 32

\* the ranges of u8 and u16
U8 == 2 ^ 8
U16 == 2 ^ 16

(* Bounds of the exploration.                                              *)
MaxStack == 17
MaxClock == 64

----------------------------------------------------------------------------
(* Machine arithmetic.                                                     *)

RECURSIVE BitAnd(_, _)
BitAnd(a, b) ==
    IF a = 0 \/ b = 0 THEN 0
    ELSE (a % 2) * (b % 2) + 2 * BitAnd(a \div 2, b \div 2)

RECURSIVE BitOr(_, _)
BitOr(a, b) ==
    IF a = 0 THEN b
    ELSE IF b = 0 THEN a
    ELSE (IF a % 2 = 1 \/ b % 2 = 1 THEN 1 ELSE 0) + 2 * BitOr(a \div 2, b \div 2)

RECURSIVE BitXor(_, _)
BitXor(a, b) ==
    IF a = 0 THEN b
    ELSE IF b = 0 THEN a
    ELSE ((a + b) % 2) + 2 * BitXor(a \div 2, b \div 2)

\* `n as i8` of a byte n: the two's complement reading
AsI8(n) == IF n >= 128 THEN n - U8 ELSE n

\* `n as u8` of any integer n
AsU8(n) == n % U8

\* the operand fields of an opcode
OpX(op) == (op \div 256) % 16
OpY(op) == (op \div 16) % 16
OpN(op) == op % 16
OpKK(op) == op % 256
OpNNN(op) == op % 4096

----------------------------------------------------------------------------
(* Ram.                                                                    *)

sprites ==
    << 240, 144, 144, 144, 240,
        32,  96,  32,  32, 112,
       240,  16, 240, 128, 240,
       240,  16, 240,  16, 240,
       144, 144, 240,  16,  16,
       240, 128, 240,  16, 240,
       240, 128, 240, 144, 240,
       240,  16,  32,  64,  64,
       240, 144, 240, 144, 240,
       240, 144, 240,  16, 240,
       240, 144, 240, 144, 144,
       224, 144, 224, 144, 224,
       240, 128, 128, 128, 240,
       224, 144, 144, 144, 224,
       240, 128, 240, 128, 240,
       240, 128, 240, 128, 128 >>

\* storing `value` into data[address]
Store(data, address, value) ==
    IF address \in DOMAIN data
    THEN [data EXCEPT ![address] = value]
    ELSE data @@ (address :> value)

\* data[address]
Cell(data, address) == IF address \in DOMAIN data THEN data[address] ELSE 0

\* a Ram whose font starts at 0x50
RamNew_font_at_0x50 == [k \in RESERVED_SIZE..(2 * RESERVED_SIZE - 1) |-> sprites[k - RESERVED_SIZE + 1]]

RamNew == [k \in 0..(RESERVED_SIZE - 1) |-> sprites[k + 1]]

\* a load that has no room for a slice that fills the program region
load_strict(data, bytes) ==
    IF Len(bytes) < RAM_SIZE - DEFAULT_PROGRAM_START_OFFSET
    THEN [ram |-> [k \in (DOMAIN data) \cup
                          {n + DEFAULT_PROGRAM_START_OFFSET - 1 : n \in 1..Len(bytes)} |->
                      IF k >= DEFAULT_PROGRAM_START_OFFSET
                         /\ k < DEFAULT_PROGRAM_START_OFFSET + Len(bytes)
                      THEN bytes[k - DEFAULT_PROGRAM_START_OFFSET + 1]
                      ELSE data[k]],
          err |-> "None"]
    ELSE [ram |-> data, err |-> "NotEnoughSpace"]

\* a load that clears the program region before it copies
load_clearing(data, bytes) ==
    IF Len(bytes) <= RAM_SIZE - DEFAULT_PROGRAM_START_OFFSET
    THEN [ram |-> [k \in (DOMAIN data) \cup
                          {n + DEFAULT_PROGRAM_START_OFFSET - 1 : n \in 1..Len(bytes)} |->
                      IF k >= DEFAULT_PROGRAM_START_OFFSET
                         /\ k < DEFAULT_PROGRAM_START_OFFSET + Len(bytes)
                      THEN bytes[k - DEFAULT_PROGRAM_START_OFFSET + 1]
                      ELSE IF k >= DEFAULT_PROGRAM_START_OFFSET THEN 0 ELSE data[k]],
          err |-> "None"]
    ELSE [ram |-> data, err |-> "NotEnoughSpace"]

\* a load that copies the bytes to address 0
load_at_zero(data, bytes) ==
    IF Len(bytes) <= RAM_SIZE - DEFAULT_PROGRAM_START_OFFSET
    THEN [ram |-> [k \in (DOMAIN data) \cup {n - 1 : n \in 1..Len(bytes)} |->
                      IF k < Len(bytes) THEN bytes[k + 1] ELSE data[k]],
          err |-> "None"]
    ELSE [ram |-> data, err |-> "NotEnoughSpace"]

\* Ram::load: [ram, err]
load(data, bytes) ==
    IF Len(bytes) <= RAM_SIZE - DEFAULT_PROGRAM_START_OFFSET
    THEN [ram |-> [k \in (DOMAIN data) \cup
                          {n + DEFAULT_PROGRAM_START_OFFSET - 1 : n \in 1..Len(bytes)} |->
                      IF k >= DEFAULT_PROGRAM_START_OFFSET
                         /\ k < DEFAULT_PROGRAM_START_OFFSET + Len(bytes)
                      THEN bytes[k - DEFAULT_PROGRAM_START_OFFSET + 1]
                      ELSE data[k]],
          err |-> "None"]
    ELSE [ram |-> data, err |-> "NotEnoughSpace"]

\* Ram::read_byte: [val, err]
read_byte(data, address) ==
    IF address < RAM_SIZE
    THEN [val |-> Cell(data, address), err |-> "None"]
    ELSE [val |-> 0, err |-> "OutOfBound"]

\* Ram::write_byte: [ram, err]
write_byte(data, address, value) ==
    IF address < RAM_SIZE
    THEN [ram |-> Store(data, address, value), err |-> "None"]
    ELSE [ram |-> data, err |-> "OutOfBound"]

\* a read_word that checks its first byte only
read_word_lax(data, address) ==
    IF address < RAM_SIZE
    THEN [val |-> Cell(data, address) * 256 + Cell(data, address + 1), err |-> "None"]
    ELSE [val |-> 0, err |-> "OutOfBound"]

\* Ram::read_word: [val, err]
read_word(data, address) ==
    IF address < RAM_SIZE - 1
    THEN [val |-> Cell(data, address) * 256 + Cell(data, address + 1), err |-> "None"]
    ELSE [val |-> 0, err |-> "OutOfBound"]

\* a write_word that stores the low byte first
write_word_little_endian(data, address, value) ==
    IF address < RAM_SIZE - 1
    THEN [ram |-> Store(Store(data, address, AsU8(value)),
                        address + 1, AsU8(value \div 256)),
          err |-> "None"]
    ELSE [ram |-> data, err |-> "OutOfBound"]

\* Ram::write_word: [ram, err]
write_word(data, address, value) ==
    IF address < RAM_SIZE - 1
    THEN [ram |-> Store(Store(data, address, AsU8(value \div 256)),
                        address + 1, AsU8(value)),
          err |-> "None"]
    ELSE [ram |-> data, err |-> "OutOfBound"]

----------------------------------------------------------------------------
(* Display and Keyboard.                                                   *)

\* Display::new: grid: [0; GRID_WIDTH * GRID_HEIGHT]
DisplayNew == [k \in {} |-> 0]

\* Display::clear: grid.fill(0)
clear(g) == [k \in {} |-> 0]

set_pixel(g, x, y, new_pixel) == Store(g, y * GRID_WIDTH + x, new_pixel)

get_pixel(g, x, y) == Cell(g, y * GRID_WIDTH + x)

KeyboardNew == 0

\* Keyboard::press_key: the key after a key-down of keycode kc
press_key(k, kc) ==
    CASE kc = "Num1" -> 1
      [] kc = "Num2" -> 2
      [] kc = "Num3" -> 3
      [] kc = "Num4" -> 12
      [] kc = "Q" -> 4
      [] kc = "W" -> 5
      [] kc = "E" -> 6
      [] kc = "R" -> 13
      [] kc = "A" -> 7
      [] kc = "S" -> 8
      [] kc = "D" -> 9
      [] kc = "F" -> 14
      [] kc = "Z" -> 10
      [] kc = "X" -> 0
      [] kc = "C" -> 11
      [] kc = "V" -> 15
      [] OTHER -> k

release_key(k) == 0

\* Keyboard::get_pressed_key: [some, val]
get_pressed_key(k) ==
    IF k # 0 THEN [some |-> TRUE, val |-> k] ELSE [some |-> FALSE, val |-> 0]

is_key_pressed(k, wanted) == k = wanted

----------------------------------------------------------------------------
(* Registers.                                                              *)

RegistersNew ==
    [pc |-> 512, i |-> 0, dt |-> 50, v |-> [k \in 0..15 |-> 0], sp |-> << >>]

----------------------------------------------------------------------------
(* Chip8::decode.                                                          *)

Instruction ==
    { "CLS", "RET", "JMP", "JMPV0", "CALL", "LD", "LDR", "LDRI", "LDRDT", "LDDTR",
      "LDRST", "LDK", "LDSR", "LDB", "LDRIR", "LDRRI", "SE", "SER", "SNE", "SNER",
      "ADD", "ADDR", "ADDRI", "SUB", "SUBN", "AND", "OR", "XOR", "SHR", "SHL",
      "RND", "DRW", "SKP", "SKNP" }

\* decode: the match on the low nibble of an 0x8xyN opcode
decode_8(op) ==
    CASE op % 16 = 0 -> "LDR"
      [] op % 16 = 1 -> "OR"
      [] op % 16 = 2 -> "AND"
      [] op % 16 = 3 -> "XOR"
      [] op % 16 = 4 -> "ADDR"
      [] op % 16 = 5 -> "SUB"
      [] op % 16 = 6 -> "SHR"
      [] op % 16 = 7 -> "SUBN"
      [] op % 16 = 14 -> "SHL"
      [] OTHER -> "FailedToDecodeOpcode"

\* decode: the match on the low byte of an 0xExNN opcode
decode_E(op) ==
    CASE op % 256 = 158 -> "SKP"
      [] op % 256 = 161 -> "SKNP"
      [] OTHER -> "FailedToDecodeOpcode"

\* a decoder that also takes 0xFx75, an instruction of a later dialect
decode_F_wider(op) ==
    CASE op % 256 = 7 -> "LDRDT"
      [] op % 256 = 10 -> "LDK"
      [] op % 256 = 21 -> "LDDTR"
      [] op % 256 = 24 -> "LDRST"
      [] op % 256 = 30 -> "ADDRI"
      [] op % 256 = 41 -> "LDSR"
      [] op % 256 = 51 -> "LDB"
      [] op % 256 = 85 -> "LDRIR"
      [] op % 256 = 101 -> "LDRRI"
      [] op % 256 = 117 -> "LDRIR"
      [] OTHER -> "FailedToDecodeOpcode"

\* decode: the match on the low byte of an 0xFxNN opcode
decode_F(op) ==
    CASE op % 256 = 7 -> "LDRDT"
      [] op % 256 = 10 -> "LDK"
      [] op % 256 = 21 -> "LDDTR"
      [] op % 256 = 24 -> "LDRST"
      [] op % 256 = 30 -> "ADDRI"
      [] op % 256 = 41 -> "LDSR"
      [] op % 256 = 51 -> "LDB"
      [] op % 256 = 85 -> "LDRIR"
      [] op % 256 = 101 -> "LDRRI"
      [] OTHER -> "FailedToDecodeOpcode"

\* Chip8::decode: the Instruction, or the error FailedToDecodeOpcode
decode(op) ==
    IF op = 224 THEN "CLS"
    ELSE IF op = 238 THEN "RET"
    ELSE IF op \div 4096 = 1 THEN "JMP"
    ELSE IF op \div 4096 = 2 THEN "CALL"
    ELSE IF op \div 4096 = 3 THEN "SE"
    ELSE IF op \div 4096 = 4 THEN "SNE"
    ELSE IF op \div 4096 = 5 THEN "SER"
    ELSE IF op \div 4096 = 6 THEN "LD"
    ELSE IF op \div 4096 = 7 THEN "ADD"
    ELSE IF op \div 4096 = 8 THEN decode_8(op)
    ELSE IF op \div 4096 = 9 THEN "SNER"
    ELSE IF op \div 4096 = 10 THEN "LDRI"
    ELSE IF op \div 4096 = 11 THEN "JMPV0"
    ELSE IF op \div 4096 = 12 THEN "RND"
    ELSE IF op \div 4096 = 13 THEN "DRW"
    ELSE IF op \div 4096 = 14 THEN decode_E(op)
    ELSE IF op \div 4096 = 15 THEN decode_F(op)
    ELSE "FailedToDecodeOpcode"

----------------------------------------------------------------------------
(* The instruction handlers.  A handler takes the machine m, a record of   *)
(* the fields of Chip8 it can touch, and returns [m, err, ovf]: the        *)
(* machine as the handler leaves it, the error it returned or the panic it *)
(* raised ("None", "OutOfBound", "Panic"), and whether one of its          *)
(* unchecked integer operations (+, -, +=) left its type's range.  Such an *)
(* operation panics in a build with overflow checks and wraps in a build   *)
(* without; m holds the wrapped value.                                     *)

Ok(m) == [m |-> m, err |-> "None", ovf |-> FALSE]

Err(m, e) == [m |-> m, err |-> e, ovf |-> FALSE]

\* registers.pc += n, on the result r of the handler so far
Advance(r, n) ==
    [r EXCEPT !.m.pc = (r.m.pc + n) % U16,
              !.ovf = r.ovf \/ (r.m.pc + n >= U16)]

cls(m) == Advance(Ok([m EXCEPT !.grid = clear(m.grid)]), WORD_SIZE)

\* a return that takes address 0 from an empty stack
ret_or_default(m) ==
    IF m.sp = << >>
    THEN Ok([m EXCEPT !.pc = 0])
    ELSE Ok([m EXCEPT !.pc = m.sp[Len(m.sp)],
                      !.sp = SubSeq(m.sp, 1, Len(m.sp) - 1)])

ret(m) ==
    IF m.sp = << >>
    THEN Err(m, "Panic")
    ELSE Ok([m EXCEPT !.pc = m.sp[Len(m.sp)],
                      !.sp = SubSeq(m.sp, 1, Len(m.sp) - 1)])

\* a jump that adds its operand to PC
jmp_relative(m, op) == Ok([m EXCEPT !.pc = (m.pc + OpNNN(op)) % U16])

\* a jump that still adds the word size, as after an incrementing fetch
jmp_advancing(m, op) == Advance(Ok([m EXCEPT !.pc = OpNNN(op)]), WORD_SIZE)

jmp(m, op) == Ok([m EXCEPT !.pc = OpNNN(op)])

\* a call that pushes its own address
call_pushing_pc(m, op) ==
    [m |-> [m EXCEPT !.sp = Append(m.sp, m.pc), !.pc = OpNNN(op)],
     err |-> "None",
     ovf |-> FALSE]

call(m, op) ==
    [m |-> [m EXCEPT !.sp = Append(m.sp, (m.pc + WORD_SIZE) % U16),
                     !.pc = OpNNN(op)],
     err |-> "None",
     ovf |-> m.pc + WORD_SIZE >= U16]

se(m, op) ==
    IF m.v[OpX(op)] = OpKK(op)
    THEN Advance(Ok(m), WORD_SIZE * 2)
    ELSE Advance(Ok(m), WORD_SIZE)

sne(m, op) ==
    IF m.v[OpX(op)] # OpKK(op)
    THEN Advance(Ok(m), WORD_SIZE * 2)
    ELSE Advance(Ok(m), WORD_SIZE)

ser(m, op) ==
    IF m.v[OpX(op)] = m.v[OpY(op)]
    THEN Advance(Ok(m), WORD_SIZE * 2)
    ELSE Advance(Ok(m), WORD_SIZE)

ld(m, op) == Advance(Ok([m EXCEPT !.v[OpX(op)] = OpKK(op)]), WORD_SIZE)

\* an addition of an immediate that reports its carry in VF
add_setting_carry(m, op) ==
    Advance(Ok([m EXCEPT !.v[OpX(op)] = (m.v[OpX(op)] + OpKK(op)) % U8,
                         !.v[15] = IF m.v[OpX(op)] + OpKK(op) >= U8 THEN 1 ELSE 0]),
            WORD_SIZE)

add(m, op) ==
    Advance(Ok([m EXCEPT !.v[OpX(op)] = (m.v[OpX(op)] + OpKK(op)) % U8]), WORD_SIZE)

ldr(m, op) == Advance(Ok([m EXCEPT !.v[OpX(op)] = m.v[OpY(op)]]), WORD_SIZE)

or(m, op) ==
    Advance(Ok([m EXCEPT !.v[OpX(op)] = BitOr(m.v[OpX(op)], m.v[OpY(op)])]), WORD_SIZE)

and(m, op) ==
    Advance(Ok([m EXCEPT !.v[OpX(op)] = BitAnd(m.v[OpX(op)], m.v[OpY(op)])]), WORD_SIZE)

xor(m, op) ==
    Advance(Ok([m EXCEPT !.v[OpX(op)] = BitXor(m.v[OpX(op)], m.v[OpY(op)])]), WORD_SIZE)

\* an addition that reports the carry from 0xFF on, one too early
addr_carry_early(m, op) ==
    LET sum == m.v[OpX(op)] + m.v[OpY(op)]
        v1 == [m.v EXCEPT ![OpX(op)] = AsU8(sum)]
        v2 == [v1 EXCEPT ![15] = IF sum >= 255 THEN 1 ELSE 0]
    IN  Advance(Ok([m EXCEPT !.v = v2]), WORD_SIZE)

addr(m, op) ==
    LET sum == m.v[OpX(op)] + m.v[OpY(op)]
        v1 == [m.v EXCEPT ![OpX(op)] = AsU8(sum)]
        v2 == [v1 EXCEPT ![15] = IF sum > 255 THEN 1 ELSE 0]
    IN  Advance(Ok([m EXCEPT !.v = v2]), WORD_SIZE)

sub(m, op) ==
    LET diff == AsI8((m.v[OpX(op)] - m.v[OpY(op)]) % U8)
        v1 == [m.v EXCEPT ![OpX(op)] = AsU8(diff)]
        v2 == [v1 EXCEPT ![15] = IF diff < 0 THEN 1 ELSE 0]
    IN  Advance(Ok([m EXCEPT !.v = v2]), WORD_SIZE)

shr(m, op) ==
    LET v1 == [m.v EXCEPT ![15] = BitAnd(m.v[OpX(op)], 1)]
        v2 == [v1 EXCEPT ![OpX(op)] = v1[OpX(op)] \div 2]
    IN  Advance(Ok([m EXCEPT !.v = v2]), WORD_SIZE)

subn(m, op) ==
    LET exact == AsI8(m.v[OpY(op)]) - AsI8(m.v[OpX(op)])
        diff == AsI8(exact % U8)
        v1 == [m.v EXCEPT ![OpX(op)] = AsU8(diff)]
        v2 == [v1 EXCEPT ![15] = IF diff < 0 THEN 1 ELSE 0]
    IN  [Advance(Ok([m EXCEPT !.v = v2]), WORD_SIZE)
            EXCEPT !.ovf = @ \/ exact < -128 \/ exact > 127]

shl(m, op) ==
    LET v1 == [m.v EXCEPT ![15] = BitAnd(m.v[OpX(op)], 128) \div 128]
        v2 == [v1 EXCEPT ![OpX(op)] = (v1[OpX(op)] * 2) % U8]
    IN  Advance(Ok([m EXCEPT !.v = v2]), WORD_SIZE)

sner(m, op) ==
    IF m.v[OpX(op)] # m.v[OpY(op)]
    THEN Advance(Ok(m), WORD_SIZE * 2)
    ELSE Advance(Ok(m), WORD_SIZE)

ldri(m, op) == Advance(Ok([m EXCEPT !.i = OpNNN(op)]), WORD_SIZE)

\* a JumpAddV0 that keeps the low 12 bits of the sum
jmpv0_masked(m, op) == Ok([m EXCEPT !.pc = (m.v[0] + OpNNN(op)) % RAM_SIZE])

jmpv0(m, op) ==
    [m |-> [m EXCEPT !.pc = (m.v[0] + OpNNN(op)) % U16],
     err |-> "None",
     ovf |-> m.v[0] + OpNNN(op) >= U16]

\* num is what rnd_engine.gen_range(0..0xFF) drew
rnd(m, op, num) ==
    Advance(Ok([m EXCEPT !.v[OpX(op)] = BitAnd(AsU8(num), OpKK(op))]), WORD_SIZE)

\* a sprite row that is OR-ed onto the screen
RECURSIVE drw_bits_or(_, _, _, _, _, _)
drw_bits_or(m, x_pos, y_pos, byte, sprite_byte, bit) ==
    IF bit >= 8 THEN m
    ELSE
        LET sprite_pixel == (sprite_byte \div (2 ^ (7 - bit))) % 2
            screen_x == (x_pos + bit) % GRID_WIDTH
            screen_y == (y_pos + byte) % GRID_HEIGHT
            screen_pixel == get_pixel(m.grid, screen_x, screen_y)
            new_pixel == BitOr(sprite_pixel, screen_pixel)
            m1 == [m EXCEPT !.grid = set_pixel(m.grid, screen_x, screen_y, new_pixel)]
            m2 == IF sprite_pixel = 1 /\ screen_pixel = 1
                  THEN [m1 EXCEPT !.v[15] = 1]
                  ELSE m1
        IN  drw_bits_or(m2, x_pos, y_pos, byte, sprite_byte, bit + 1)

\* an inner loop that does not wrap the column at the right edge
RECURSIVE drw_bits_unwrapped(_, _, _, _, _, _)
drw_bits_unwrapped(m, x_pos, y_pos, byte, sprite_byte, bit) ==
    IF bit >= 8 THEN m
    ELSE
        LET sprite_pixel == (sprite_byte \div (2 ^ (7 - bit))) % 2
            screen_x == x_pos + bit
            screen_y == (y_pos + byte) % GRID_HEIGHT
            screen_pixel == get_pixel(m.grid, screen_x, screen_y)
            new_pixel == BitXor(sprite_pixel, screen_pixel)
            m1 == [m EXCEPT !.grid = set_pixel(m.grid, screen_x, screen_y, new_pixel)]
            m2 == IF sprite_pixel = 1 /\ screen_pixel = 1
                  THEN [m1 EXCEPT !.v[15] = 1]
                  ELSE m1
        IN  drw_bits_unwrapped(m2, x_pos, y_pos, byte, sprite_byte, bit + 1)

\* an inner loop that takes bit 0 of the sprite byte as the leftmost pixel
RECURSIVE drw_bits_lsb_first(_, _, _, _, _, _)
drw_bits_lsb_first(m, x_pos, y_pos, byte, sprite_byte, bit) ==
    IF bit >= 8 THEN m
    ELSE
        LET sprite_pixel == (sprite_byte \div (2 ^ bit)) % 2
            screen_x == (x_pos + bit) % GRID_WIDTH
            screen_y == (y_pos + byte) % GRID_HEIGHT
            screen_pixel == get_pixel(m.grid, screen_x, screen_y)
            new_pixel == BitXor(sprite_pixel, screen_pixel)
            m1 == [m EXCEPT !.grid = set_pixel(m.grid, screen_x, screen_y, new_pixel)]
            m2 == IF sprite_pixel = 1 /\ screen_pixel = 1
                  THEN [m1 EXCEPT !.v[15] = 1]
                  ELSE m1
        IN  drw_bits_lsb_first(m2, x_pos, y_pos, byte, sprite_byte, bit + 1)

\* the inner loop of drw: the bits bit..7 of one sprite row
RECURSIVE drw_bits(_, _, _, _, _, _)
drw_bits(m, x_pos, y_pos, byte, sprite_byte, bit) ==
    IF bit >= 8 THEN m
    ELSE
        LET sprite_pixel == (sprite_byte \div (2 ^ (7 - bit))) % 2
            screen_x == (x_pos + bit) % GRID_WIDTH
            screen_y == (y_pos + byte) % GRID_HEIGHT
            screen_pixel == get_pixel(m.grid, screen_x, screen_y)
            new_pixel == BitXor(sprite_pixel, screen_pixel)
            m1 == [m EXCEPT !.grid = set_pixel(m.grid, screen_x, screen_y, new_pixel)]
            m2 == IF sprite_pixel = 1 /\ screen_pixel = 1
                  THEN [m1 EXCEPT !.v[15] = 1]
                  ELSE m1
        IN  drw_bits(m2, x_pos, y_pos, byte, sprite_byte, bit + 1)

\* the outer loop of drw: the sprite rows byte..n-1
RECURSIVE drw_bytes(_, _, _, _, _)
drw_bytes(m, x_pos, y_pos, n, byte) ==
    IF byte >= n THEN Ok(m)
    ELSE
        LET r == read_byte(m.ram, m.i + byte)
        IN  IF r.err # "None" THEN Err(m, r.err)
            ELSE drw_bytes(drw_bits(m, x_pos, y_pos, byte, r.val, 0),
                           x_pos, y_pos, n, byte + 1)

drw(m, op) ==
    LET x_pos == m.v[OpX(op)]
        y_pos == m.v[OpY(op)]
        r == drw_bytes([m EXCEPT !.v[15] = 0], x_pos, y_pos, OpN(op), 0)
    IN  IF r.err # "None" THEN r ELSE Advance(r, WORD_SIZE)

skp(m, op) ==
    IF is_key_pressed(m.key, m.v[OpX(op)])
    THEN Advance(Ok([m EXCEPT !.key = release_key(m.key)]), WORD_SIZE * 2)
    ELSE Advance(Ok(m), WORD_SIZE)

sknp(m, op) ==
    IF ~is_key_pressed(m.key, m.v[OpX(op)])
    THEN Advance(Ok(m), WORD_SIZE * 2)
    ELSE Advance(Ok([m EXCEPT !.key = release_key(m.key)]), WORD_SIZE)

\* t is the clock reading of Instant::now()
set_delay_timer(m, value, t) == [m EXCEPT !.delay_timer = t, !.dt = value]

\* a timer read that subtracts without looking whether the ticks exceed the base
get_delay_timer_wrapping(m, t) ==
    LET ms == t - m.delay_timer
        ticks == ms \div 16
    IN  (m.dt - AsU8(ticks)) % U8

\* t is the clock reading behind delay_timer.elapsed()
get_delay_timer(m, t) ==
    LET ms == t - m.delay_timer
        ticks == ms \div 16
    IN  IF ticks >= m.dt THEN 0 ELSE m.dt - AsU8(ticks)

ldrdt(m, op, t) ==
    Advance(Ok([m EXCEPT !.v[OpX(op)] = get_delay_timer(m, t)]), WORD_SIZE)

\* a LoadFromKey that consumes the key it has read
ldk_releasing(m, op) ==
    LET pressed == get_pressed_key(m.key)
    IN  IF pressed.some
        THEN Advance(Ok([m EXCEPT !.v[OpX(op)] = pressed.val,
                                  !.key = release_key(m.key)]), WORD_SIZE)
        ELSE Advance(Ok(m), WORD_SIZE)

ldk(m, op) ==
    LET pressed == get_pressed_key(m.key)
    IN  IF pressed.some
        THEN Advance(Ok([m EXCEPT !.v[OpX(op)] = pressed.val]), WORD_SIZE)
        ELSE Advance(Ok(m), WORD_SIZE)

lddtr(m, op, t) == Advance(Ok(set_delay_timer(m, m.v[OpX(op)], t)), WORD_SIZE)

ldrst(m, op) == Advance(Ok(m), WORD_SIZE)

addri(m, op) ==
    [Advance(Ok([m EXCEPT !.i = (m.i + m.v[OpX(op)]) % U16]), WORD_SIZE)
        EXCEPT !.ovf = @ \/ (m.i + m.v[OpX(op)] >= U16)]

ldsr(m, op) ==
    [Advance(Ok([m EXCEPT !.i = (m.v[OpX(op)] * 5) % U16]), WORD_SIZE)
        EXCEPT !.ovf = @ \/ (m.v[OpX(op)] * 5 >= U16)]

ldb(m, op) ==
    LET x == OpX(op)
        w0 == write_byte(m.ram, m.i, m.v[x] \div 100)
        w1 == write_byte(w0.ram, m.i + 1, m.v[x] % 100)
        w2 == write_byte(w1.ram, m.i + 2, m.v[x] % 10)
    IN  IF w0.err # "None" THEN Err(m, w0.err)
        ELSE IF w1.err # "None" THEN Err([m EXCEPT !.ram = w0.ram], w1.err)
        ELSE IF w2.err # "None" THEN Err([m EXCEPT !.ram = w1.ram], w2.err)
        ELSE Advance(Ok([m EXCEPT !.ram = w2.ram]), WORD_SIZE)

\* the loop of ldrir: the registers idx..x
RECURSIVE ldrir_loop(_, _, _)
ldrir_loop(m, x, idx) ==
    IF idx > x THEN Ok(m)
    ELSE
        LET w == write_byte(m.ram, m.i + idx, m.v[idx])
        IN  IF w.err # "None" THEN Err(m, w.err)
            ELSE ldrir_loop([m EXCEPT !.ram = w.ram], x, idx + 1)

\* a store of registers that leaves I where it was
ldrir_keeps_i(m, op) ==
    LET r == ldrir_loop(m, OpX(op), 0)
    IN  IF r.err # "None" THEN r ELSE Advance(r, WORD_SIZE)

ldrir(m, op) ==
    LET x == OpX(op)
        r == ldrir_loop(m, x, 0)
    IN  IF r.err # "None" THEN r
        ELSE [Advance([r EXCEPT !.m.i = (r.m.i + x + 1) % U16], WORD_SIZE)
                 EXCEPT !.ovf = @ \/ (r.m.i + x + 1 >= U16)]

\* the loop of ldrri: the registers idx..x
RECURSIVE ldrri_loop(_, _, _)
ldrri_loop(m, x, idx) ==
    IF idx > x THEN Ok(m)
    ELSE
        LET r == read_byte(m.ram, m.i + idx)
        IN  IF r.err # "None" THEN Err(m, r.err)
            ELSE ldrri_loop([m EXCEPT !.v[idx] = r.val], x, idx + 1)

\* a load of registers that stops one register short of V[x]
ldrri_short(m, op) ==
    LET x == OpX(op)
        r == ldrri_loop(m, x - 1, 0)
    IN  IF r.err # "None" THEN r
        ELSE [Advance([r EXCEPT !.m.i = (r.m.i + x + 1) % U16], WORD_SIZE)
                 EXCEPT !.ovf = @ \/ (r.m.i + x + 1 >= U16)]

ldrri(m, op) ==
    LET x == OpX(op)
        r == ldrri_loop(m, x, 0)
    IN  IF r.err # "None" THEN r
        ELSE [Advance([r EXCEPT !.m.i = (r.m.i + x + 1) % U16], WORD_SIZE)
                 EXCEPT !.ovf = @ \/ (r.m.i + x + 1 >= U16)]

\* Chip8::execute; inp = [num, t]: the random draw and the clock reading
execute(m, ins, op, inp) ==
    CASE ins = "CLS" -> cls(m)
      [] ins = "RET" -> ret(m)
      [] ins = "JMP" -> jmp(m, op)
      [] ins = "CALL" -> call(m, op)
      [] ins = "SE" -> se(m, op)
      [] ins = "SNE" -> sne(m, op)
      [] ins = "SER" -> ser(m, op)
      [] ins = "LD" -> ld(m, op)
      [] ins = "ADD" -> add(m, op)
      [] ins = "LDR" -> ldr(m, op)
      [] ins = "OR" -> or(m, op)
      [] ins = "AND" -> and(m, op)
      [] ins = "XOR" -> xor(m, op)
      [] ins = "ADDR" -> addr(m, op)
      [] ins = "SUB" -> sub(m, op)
      [] ins = "SHR" -> shr(m, op)
      [] ins = "SUBN" -> subn(m, op)
      [] ins = "SHL" -> shl(m, op)
      [] ins = "SNER" -> sner(m, op)
      [] ins = "LDRI" -> ldri(m, op)
      [] ins = "JMPV0" -> jmpv0(m, op)
      [] ins = "RND" -> rnd(m, op, inp.num)
      [] ins = "DRW" -> drw(m, op)
      [] ins = "SKP" -> skp(m, op)
      [] ins = "SKNP" -> sknp(m, op)
      [] ins = "LDRDT" -> ldrdt(m, op, inp.t)
      [] ins = "LDK" -> ldk(m, op)
      [] ins = "LDDTR" -> lddtr(m, op, inp.t)
      [] ins = "LDRST" -> ldrst(m, op)
      [] ins = "ADDRI" -> addri(m, op)
      [] ins = "LDSR" -> ldsr(m, op)
      [] ins = "LDB" -> ldb(m, op)
      [] ins = "LDRIR" -> ldrir(m, op)
      [] ins = "LDRRI" -> ldrri(m, op)

----------------------------------------------------------------------------
(* The inputs of a run: the ROM, the window events, the random draws and   *)
(* the clock.                                                              *)

Quit == [type |-> "Quit", keycode |-> "NoKeycode"]

KeyDown(kc) == [type |-> "KeyDown", keycode |-> kc]

\* what one poll_iter() of the event pump may yield
EventBatches ==
    { << >>,
      <<Quit>>,
      <<KeyDown("Escape")>>,
      <<KeyDown("Num1")>>,
      <<KeyDown("X")>>,
      <<KeyDown("P")>>,
      <<KeyDown("NoKeycode")>>,
      <<KeyDown("Num1"), Quit>> }

\* what gen_range(0..0xFF) may draw
RndRange == 0..254

\* the milliseconds that may pass between two readings of the clock
ClockSteps == {2, 14, 16, 34}

Op(c, x, y, n) == c * 4096 + x * 256 + y * 16 + n

\* the bytes of a program given as its instruction words
Bytes(ops) ==
    [k \in 1..(2 * Len(ops)) |->
        IF k % 2 = 1 THEN ops[(k + 1) \div 2] \div 256 ELSE ops[k \div 2] % 256]

ByteSamples == {0, 1, 127, 128, 255}

RegPairs == {<<0, 1>>, <<1, 1>>, <<15, 1>>, <<1, 15>>}

\* LD Vx, a; LD Vy, b; then one two-register instruction on Vx, Vy
AluRoms ==
    { <<Op(6, p[1], 0, 0) + a, Op(6, p[2], 0, 0) + b, Op(c[1], p[1], p[2], c[2])>> :
        p \in RegPairs, a \in ByteSamples, b \in ByteSamples,
        c \in ({8} \X {0, 1, 2, 3, 4, 5, 6, 7, 14}) \cup {<<5, 0>>, <<9, 0>>} }

\* LD Vx, a; then one instruction with an immediate on Vx
ImmRoms ==
    { <<Op(6, x, 0, 0) + a, Op(c, x, 0, 0) + kk>> :
        x \in {0, 15}, a \in ByteSamples, kk \in ByteSamples, c \in {3, 4, 7} }
    \cup { <<Op(12, 0, 0, 0) + kk>> : kk \in {0, 15, 255} }

ISamples == {0, 78, 768, 4093, 4094, 4095}

\* V0..V3 = 1, 2, 3, 4 and VF = 200; I = nnn; then one Fx instruction
MemRoms ==
    { <<Op(6, 0, 0, 1), Op(6, 1, 0, 2), Op(6, 2, 0, 3), Op(6, 3, 0, 4),
        Op(6, 15, 12, 8), Op(10, 0, 0, 0) + nnn, Op(15, x, 0, 0) + f>> :
        nnn \in ISamples, x \in {0, 1, 3, 15}, f \in {30, 41, 51, 85, 101} }
    \cup { <<Op(6, 2, 0, 0) + a, Op(10, 3, 0, 0), Op(15, 2, 3, 3)>> :
            a \in ByteSamples \cup {9, 10, 99, 100, 199} }

\* Vx = a, Vy = b, I = nnn; then the same draw three times
DrawRom(x, y, a, b, nnn, n) ==
    <<Op(6, x, 0, 0) + a, Op(6, y, 0, 0) + b, Op(10, 0, 0, 0) + nnn,
      Op(13, x, y, n), Op(13, x, y, n), Op(13, x, y, n)>>

DrawRoms ==
    { DrawRom(0, 1, a, b, nnn, n) :
        a \in {0, 60, 255}, b \in {0, 30, 255}, nnn \in {0, 768, 4094},
        n \in {0, 1, 5, 15} }
    \cup { DrawRom(p[1], p[2], 1, 0, nnn, 5) :
            p \in {<<15, 1>>, <<1, 15>>, <<2, 2>>}, nnn \in {0, 768} }

\* Vx = a; then one keyboard instruction
KeyRoms ==
    { <<Op(6, x, 0, 0) + a, Op(c[1], x, 0, 0) + c[2]>> :
        x \in {0, 5}, a \in {0, 1, 2}, c \in {<<14, 158>>, <<14, 161>>, <<15, 10>>} }

\* Vx = a; set the delay timer from Vx; read it twice
TimerRoms ==
    { <<Op(6, 1, 0, 0) + a, Op(15, 1, 1, 5), Op(15, 2, 0, 7), Op(15, 3, 0, 7)>> :
        a \in {0, 1, 3, 255} }
    \cup { <<Op(15, 0, 0, 7)>>, <<Op(15, 0, 1, 8)>> }

\* V0..V3 = 1, 2, 3, 4 and VF = 200; I = nnn; store V0..Vx; V0..V3 and VF
\* overwritten; I = nnn again; load V0..Vx
RoundTripRoms ==
    { <<Op(6, 0, 0, 1), Op(6, 1, 0, 2), Op(6, 2, 0, 3), Op(6, 3, 0, 4),
        Op(6, 15, 12, 8), Op(10, 0, 0, 0) + nnn, Op(15, x, 5, 5),
        Op(6, 0, 9, 9), Op(6, 1, 9, 8), Op(6, 2, 9, 7), Op(6, 3, 9, 6),
        Op(6, 15, 9, 5), Op(10, 0, 0, 0) + nnn, Op(15, x, 6, 5)>> :
        nnn \in {0, 768, 4080, 4092}, x \in {0, 1, 3, 15} }

ControlRoms ==
    { <<Op(0, 0, 14, 0), Op(1, 2, 0, 0)>>,                \* CLS; JMP 0x200
      <<Op(0, 0, 14, 14)>>,                               \* RET on an empty stack
      <<Op(2, 2, 0, 4), Op(1, 2, 0, 2), Op(2, 2, 0, 8),   \* nested CALL / RET
        Op(0, 0, 14, 14), Op(0, 0, 14, 14)>>,
      <<Op(2, 2, 0, 0)>>,                                 \* CALL 0x200 for ever
      \* a subroutine that calls itself until MaxStack calls are nested,
      \* then returns through all of them:
      \* 0x200 CALL 0x204; 0x202 JMP 0x202; 0x204 ADD V0, 1;
      \* 0x206 SE V0, MaxStack; 0x208 CALL 0x204; 0x20A RET
      <<Op(2, 2, 0, 4), Op(1, 2, 0, 2), Op(7, 0, 0, 1), Op(3, 0, 0, 0) + MaxStack,
        Op(2, 2, 0, 4), Op(0, 0, 14, 14)>>,
      <<Op(6, 0, 15, 15), Op(11, 15, 15, 15)>>,           \* V0 = 255; JMPV0 0xFFF
      <<Op(11, 15, 15, 14)>>,                             \* JMPV0 0xFFE
      <<Op(6, 0, 0, 1), Op(11, 15, 15, 14)>>,             \* V0 = 1; JMPV0 0xFFE
      <<Op(1, 15, 15, 15)>>,                              \* JMP 0xFFF
      <<Op(1, 15, 15, 14)>>,                              \* JMP 0xFFE
      \* I = 0xFFF, V0 = 255; 241 times ADDRI V0; then STORE V0 at I
      <<Op(10, 15, 15, 15), Op(6, 0, 15, 15), Op(15, 0, 1, 14), Op(7, 1, 0, 1),
        Op(3, 1, 15, 1), Op(1, 2, 0, 4), Op(15, 0, 5, 5)>> }

Roms == AluRoms \cup ImmRoms \cup MemRoms \cup DrawRoms \cup KeyRoms
            \cup TimerRoms \cup ControlRoms \cup RoundTripRoms

----------------------------------------------------------------------------
(* The machine and the run loop.                                           *)

\* the fields of Chip8 the handlers work on
\* no call has been made on the Ram since Ram::new
NoCall ==
    [op |-> "new", address |-> 0, value |-> 0, bytes |-> << >>, val |-> 0,
     err |-> "None", n |-> 0]

Machine ==
    [pc |-> pc, i |-> i, v |-> v, sp |-> sp, dt |-> dt, ram |-> ram,
     grid |-> grid, key |-> key, delay_timer |-> delay_timer]

\* the machine becomes m
Becomes(m) ==
    /\ pc' = m.pc
    /\ i' = m.i
    /\ v' = m.v
    /\ sp' = m.sp
    /\ dt' = m.dt
    /\ ram' = m.ram
    /\ grid' = m.grid
    /\ key' = m.key
    /\ delay_timer' = m.delay_timer

\* an event loop that takes Escape for any other key
RECURSIVE poll_without_escape(_, _)
poll_without_escape(k, evs) ==
    IF evs = << >> THEN [quit |-> FALSE, key |-> k]
    ELSE
        LET event == Head(evs)
        IN  IF event.type = "Quit"
            THEN [quit |-> TRUE, key |-> k]
            ELSE IF event.type = "KeyDown"
            THEN IF event.keycode # "NoKeycode"
                 THEN poll_without_escape(press_key(k, event.keycode), Tail(evs))
                 ELSE poll_without_escape(release_key(k), Tail(evs))
            ELSE poll_without_escape(k, Tail(evs))

\* the event loop of run(): [quit, key] after the events evs, in order
RECURSIVE poll(_, _)
poll(k, evs) ==
    IF evs = << >> THEN [quit |-> FALSE, key |-> k]
    ELSE
        LET event == Head(evs)
        IN  IF event.type = "Quit"
               \/ (event.type = "KeyDown" /\ event.keycode = "Escape")
            THEN [quit |-> TRUE, key |-> k]
            ELSE IF event.type = "KeyDown"
            THEN IF event.keycode # "NoKeycode"
                 THEN poll(press_key(k, event.keycode), Tail(evs))
                 ELSE poll(release_key(k), Tail(evs))
            ELSE poll(k, Tail(evs))

\* Chip8::fetch: [val, err]
fetch(m) == read_word(m.ram, m.pc)

\* the random draw and the clock reading an instruction may be given
Inputs(ins) ==
    IF ins = "RND" THEN {[num |-> n, t |-> now] : n \in RndRange}
    ELSE IF ins \in {"LDRDT", "LDDTR"}
    THEN {[num |-> 0, t |-> now + d] : d \in {e \in ClockSteps : now + e <= MaxClock}}
    ELSE {[num |-> 0, t |-> now]}

\* Chip8::new, then load_rom of the program ops, then run() is entered.
\* status is the place of run(): "Poll" at the top of the loop, "Run" between
\* the event loop and fetch, and after the loop how it ended.
Init ==
    \E ops \in Roms :
        /\ pc = RegistersNew.pc
        /\ i = RegistersNew.i
        /\ v = RegistersNew.v
        /\ sp = RegistersNew.sp
        /\ dt = RegistersNew.dt
        /\ ram = load(RamNew, Bytes(ops)).ram
        /\ grid = DisplayNew
        /\ key = KeyboardNew
        /\ delay_timer = 0
        /\ now = 0
        /\ status = "Poll"
        /\ opcode = 0
        /\ instruction = "None"
        /\ polled = << >>
        /\ api = NoCall

\* run(): the event loop; a Quit or Escape event ends run() with Ok
PollEvents ==
    /\ status = "Poll"
    /\ \E evs \in EventBatches :
        LET p == poll(key, evs)
        IN  /\ key' = p.key
            /\ status' = IF p.quit THEN "Quit" ELSE "Run"
            /\ polled' = evs
            /\ UNCHANGED <<pc, i, v, sp, dt, ram, grid, delay_timer, now, opcode,
                           instruction, api>>

\* run(): fetch returns the error of read_word
FetchFailure ==
    /\ status = "Run"
    /\ fetch(Machine).err # "None"
    /\ status' = fetch(Machine).err
    /\ instruction' = "None"
    /\ UNCHANGED <<pc, i, v, sp, dt, ram, grid, key, delay_timer, now, opcode,
                   polled, api>>

\* a cycle whose fetch has already moved PC past the word when decode fails
DecodeFailure_advancing ==
    /\ status = "Run"
    /\ fetch(Machine).err = "None"
    /\ decode(fetch(Machine).val) = "FailedToDecodeOpcode"
    /\ status' = "FailedToDecodeOpcode"
    /\ opcode' = fetch(Machine).val
    /\ instruction' = "None"
    /\ pc' = pc + WORD_SIZE
    /\ UNCHANGED <<i, v, sp, dt, ram, grid, key, delay_timer, now, polled, api>>

\* run(): decode returns FailedToDecodeOpcode
DecodeFailure ==
    /\ status = "Run"
    /\ fetch(Machine).err = "None"
    /\ decode(fetch(Machine).val) = "FailedToDecodeOpcode"
    /\ status' = "FailedToDecodeOpcode"
    /\ opcode' = fetch(Machine).val
    /\ instruction' = "None"
    /\ UNCHANGED <<pc, i, v, sp, dt, ram, grid, key, delay_timer, now, polled, api>>

\* run(): the instruction is executed; it returns Ok (and run() sleeps and
\* loops), returns an error, or panics
ExecuteCycle ==
    LET f == fetch(Machine)
        ins == decode(f.val)
    IN  /\ status = "Run"
        /\ f.err = "None"
        /\ ins \in Instruction
        /\ ins = "CALL" => Len(sp) < MaxStack
        /\ \E inp \in Inputs(ins) :
            LET r == execute(Machine, ins, f.val, inp)
            IN  \E checks \in (IF r.ovf THEN BOOLEAN ELSE {FALSE}) :
                    /\ IF r.ovf /\ checks
                       THEN Becomes(Machine) /\ status' = "Panic"
                       ELSE /\ Becomes(r.m)
                            /\ status' = IF r.err = "None" THEN "Poll" ELSE r.err
                    /\ now' = inp.t
                    /\ opcode' = f.val
                    /\ instruction' = ins
                    /\ polled' = << >>
                    /\ api' = api

Next == PollEvents \/ FetchFailure \/ DecodeFailure \/ ExecuteCycle

Spec == Init /\ [][Next]_vars

----------------------------------------------------------------------------
(* decode on its own: every 16-bit opcode is decoded once.                 *)

InitDecode ==
    /\ pc = RegistersNew.pc
    /\ i = RegistersNew.i
    /\ v = RegistersNew.v
    /\ sp = RegistersNew.sp
    /\ dt = RegistersNew.dt
    /\ ram = RamNew
    /\ grid = DisplayNew
    /\ key = KeyboardNew
    /\ delay_timer = 0
    /\ now = 0
    /\ status = "Decode"
    /\ opcode \in 0..(U16 - 1)
    /\ instruction = "None"
    /\ polled = << >>
    /\ api = NoCall

\* Self::decode(opcode), its result kept in `instruction`
DecodeOnly ==
    /\ status = "Decode"
    /\ instruction' = decode(opcode)
    /\ status' = "Decoded"
    /\ UNCHANGED <<pc, i, v, sp, dt, ram, grid, key, delay_timer, now, opcode,
                   polled, api>>

SpecDecode == InitDecode /\ [][DecodeOnly]_vars

----------------------------------------------------------------------------
(* A Ram on its own: calls of its methods on a Ram fresh from Ram::new, as *)
(* the tests of the module make them.                                      *)

MaxCalls == 2

\* a slice of len bytes
Slice(len, seed) == [k \in 1..len |-> (k * 7 + seed) % U8]

\* the slices given to load: empty, short, the longest that fits, one more
LoadSamples ==
    { Slice(0, 0), Slice(1, 171), Slice(4, 1),
      Slice(RAM_SIZE - DEFAULT_PROGRAM_START_OFFSET, 3),
      Slice(RAM_SIZE - DEFAULT_PROGRAM_START_OFFSET + 1, 5) }

Addresses == {0, 512, 4094, 4095, 4096}

ByteValues == {1}

WordValues == {1024, 43981}

\* the call op has been made, with these arguments and this result
Called(op, address, value, bytes, val, err) ==
    api' = [op |-> op, address |-> address, value |-> value, bytes |-> bytes,
            val |-> val, err |-> err, n |-> api.n + 1]

InitRam ==
    /\ pc = RegistersNew.pc
    /\ i = RegistersNew.i
    /\ v = RegistersNew.v
    /\ sp = RegistersNew.sp
    /\ dt = RegistersNew.dt
    /\ ram = RamNew
    /\ grid = DisplayNew
    /\ key = KeyboardNew
    /\ delay_timer = 0
    /\ now = 0
    /\ status = "Ram"
    /\ opcode = 0
    /\ instruction = "None"
    /\ polled = << >>
    /\ api = NoCall

RamLoad ==
    /\ status = "Ram" /\ api.n < MaxCalls
    /\ \E bytes \in LoadSamples :
        LET r == load(ram, bytes)
        IN  ram' = r.ram /\ Called("load", 0, 0, bytes, 0, r.err)
    /\ UNCHANGED <<pc, i, v, sp, dt, grid, key, delay_timer, now, status, opcode,
                   instruction, polled>>

RamReadByte ==
    /\ status = "Ram" /\ api.n < MaxCalls
    /\ \E address \in Addresses :
        LET r == read_byte(ram, address)
        IN  Called("read_byte", address, 0, << >>, r.val, r.err)
    /\ UNCHANGED <<pc, i, v, sp, dt, ram, grid, key, delay_timer, now, status, opcode,
                   instruction, polled>>

RamWriteByte ==
    /\ status = "Ram" /\ api.n < MaxCalls
    /\ \E address \in Addresses, value \in ByteValues :
        LET r == write_byte(ram, address, value)
        IN  ram' = r.ram /\ Called("write_byte", address, value, << >>, 0, r.err)
    /\ UNCHANGED <<pc, i, v, sp, dt, grid, key, delay_timer, now, status, opcode,
                   instruction, polled>>

RamReadWord ==
    /\ status = "Ram" /\ api.n < MaxCalls
    /\ \E address \in Addresses :
        LET r == read_word(ram, address)
        IN  Called("read_word", address, 0, << >>, r.val, r.err)
    /\ UNCHANGED <<pc, i, v, sp, dt, ram, grid, key, delay_timer, now, status, opcode,
                   instruction, polled>>

RamWriteWord ==
    /\ status = "Ram" /\ api.n < MaxCalls
    /\ \E address \in Addresses, value \in WordValues :
        LET r == write_word(ram, address, value)
        IN  ram' = r.ram /\ Called("write_word", address, value, << >>, 0, r.err)
    /\ UNCHANGED <<pc, i, v, sp, dt, grid, key, delay_timer, now, status, opcode,
                   instruction, polled>>

NextRam == RamLoad \/ RamReadByte \/ RamWriteByte \/ RamReadWord \/ RamWriteWord

SpecRam == InitRam /\ [][NextRam]_vars

----------------------------------------------------------------------------
(* What the properties below speak of.                                     *)

\* this step is an instruction that executed and returned Ok
Executed(ins) == status = "Run" /\ status' = "Poll" /\ instruction' = ins

\* two sparse arrays hold the same cells
SameData(d1, d2) == \A k \in (DOMAIN d1) \cup (DOMAIN d2) : Cell(d1, k) = Cell(d2, k)

Skips == {"SE", "SNE", "SER", "SNER", "SKP", "SKNP"}

\* the condition of the conditional skip ins with opcode op, in this state
SkipCondition(ins, op) ==
    CASE ins = "SE" -> v[OpX(op)] = OpKK(op)
      [] ins = "SNE" -> v[OpX(op)] # OpKK(op)
      [] ins = "SER" -> v[OpX(op)] = v[OpY(op)]
      [] ins = "SNER" -> v[OpX(op)] # v[OpY(op)]
      [] ins = "SKP" -> key = v[OpX(op)]
      [] ins = "SKNP" -> key # v[OpX(op)]

----------------------------------------------------------------------------
TableTag(op) ==
    LET c == op \div 4096
        n == op % 16
        nn == op % 256
    IN  CASE op = 224 -> "CLS"
          [] op = 238 -> "RET"
          [] c \in {1, 2, 3, 4, 5, 6, 7, 9, 10, 11, 12, 13} ->
                [k \in {1, 2, 3, 4, 5, 6, 7, 9, 10, 11, 12, 13} |->
                    CASE k = 1 -> "JMP" [] k = 2 -> "CALL" [] k = 3 -> "SE"
                      [] k = 4 -> "SNE" [] k = 5 -> "SER" [] k = 6 -> "LD"
                      [] k = 7 -> "ADD" [] k = 9 -> "SNER" [] k = 10 -> "LDRI"
                      [] k = 11 -> "JMPV0" [] k = 12 -> "RND" [] k = 13 -> "DRW"][c]
          [] c = 8 /\ n \in {0, 1, 2, 3, 4, 5, 6, 7, 14} ->
                [k \in {0, 1, 2, 3, 4, 5, 6, 7, 14} |->
                    CASE k = 0 -> "LDR" [] k = 1 -> "OR" [] k = 2 -> "AND"
                      [] k = 3 -> "XOR" [] k = 4 -> "ADDR" [] k = 5 -> "SUB"
                      [] k = 6 -> "SHR" [] k = 7 -> "SUBN" [] k = 14 -> "SHL"][n]
          [] c = 14 /\ nn \in {158, 161} -> IF nn = 158 THEN "SKP" ELSE "SKNP"
          [] c = 15 /\ nn \in {7, 10, 21, 24, 30, 41, 51, 85, 101} ->
                [k \in {7, 10, 21, 24, 30, 41, 51, 85, 101} |->
                    CASE k = 7 -> "LDRDT" [] k = 10 -> "LDK" [] k = 21 -> "LDDTR"
                      [] k = 24 -> "LDRST" [] k = 30 -> "ADDRI" [] k = 41 -> "LDSR"
                      [] k = 51 -> "LDB" [] k = 85 -> "LDRIR" [] k = 101 -> "LDRRI"][nn]
          [] OTHER -> "FailedToDecodeOpcode"

C2_DecodeTable ==
    status = "Decoded" =>
        /\ instruction = TableTag(opcode)
        /\ instruction \in Instruction \cup {"FailedToDecodeOpcode"}
        /\ opcode \div 4096 = 0 /\ opcode \notin {224, 238}
                => instruction = "FailedToDecodeOpcode"

\* 0x0000 has been decoded, to the failure
C2_Witness ==
    status = "Decoded" /\ opcode = 0 /\ instruction = "FailedToDecodeOpcode"

(* C3.  A cycle fails only with OutOfBound from fetch, Draw, StoreBCD,     *)
(* StoreRegisters or LoadRegisters, or with FailedToDecodeOpcode; every    *)
(* other instruction completes.  (Return, whose failure on an empty stack  *)
(* the specification documents, is left out of "every other".)             *)
C3_OnlyDocumentedFailures ==
    /\ status \in {"Poll", "Run", "Quit", "FailedToDecodeOpcode", "OutOfBound", "Panic"}
    /\ status = "OutOfBound" => instruction \in {"None", "DRW", "LDB", "LDRIR", "LDRRI"}
    /\ status = "Panic" => instruction = "RET"

(* C4.  When Draw, StoreBCD, StoreRegisters or LoadRegisters fails with    *)
(* OutOfBound, V0..VF, I, PC, the memory and the framebuffer are what they *)
(* were before the instruction.                                            *)
C4_FailureChangesNothing ==
    [][ (status = "Run" /\ status' = "OutOfBound"
            /\ instruction' \in {"DRW", "LDB", "LDRIR", "LDRRI"}) =>
            /\ v' = v
            /\ i' = i
            /\ pc' = pc
            /\ SameData(ram', ram)
            /\ SameData(grid', grid) ]_vars

(* C5.  Return on an empty call stack is fatal: the run ends in the panic, *)
(* PC and the rest of the machine keep their values, and nothing is        *)
(* fetched or executed after it.                                           *)
C5_ReturnOnEmptyStackIsFatal ==
    [][ /\ status # "Panic"
        /\ (status = "Run" /\ fetch(Machine).err = "None"
                /\ decode(fetch(Machine).val) = "RET" /\ sp = << >>) =>
                /\ status' = "Panic"
                /\ pc' = pc
                /\ <<i, v, sp, dt, grid, key, delay_timer>>'
                        = <<i, v, sp, dt, grid, key, delay_timer>>
                /\ ram' = ram ]_vars

\* a Return has met the empty stack
C5_Witness ==
    status = "Panic" /\ instruction = "RET" /\ sp = << >> /\ pc = 512

(* C6.  AddCarry, for every x and y in 0..15 (x = y and x or y = 0xF       *)
(* included): VF becomes 1 if V[x] + V[y] exceeds 255 and 0 otherwise, and *)
(* V[x] becomes the low 8 bits of the sum.                                 *)
C6_AddCarryAsClaimed ==
    [][ Executed("ADDR") =>
            LET x == OpX(opcode')
                sum == v[x] + v[OpY(opcode')]
            IN  /\ v'[15] = (IF sum > 255 THEN 1 ELSE 0)
                /\ v'[x] = sum % 256 ]_vars

(* C6, amended.  VF becomes the carry for every x and y; V[x] becomes the  *)
(* low 8 bits of the sum for every x other than 0xF, where the carry       *)
(* replaces the sum; no other register changes.                            *)
C6_AddCarry ==
    [][ Executed("ADDR") =>
            LET x == OpX(opcode')
                sum == v[x] + v[OpY(opcode')]
            IN  /\ v'[15] = (IF sum > 255 THEN 1 ELSE 0)
                /\ x # 15 => v'[x] = sum % 256
                /\ \A k \in 0..14 : k # x => v'[k] = v[k] ]_vars

\* an addition into VF itself has carried: 255 + 1
C6_Witness ==
    /\ status = "Poll" /\ instruction = "ADDR"
    /\ OpX(opcode) = 15 /\ OpY(opcode) = 1
    /\ v[1] = 1 /\ v[15] = 1

(* C7.  ShiftRight and ShiftLeft, for every x in 0..15 (0xF included): VF  *)
(* becomes the bit shifted out of V[x], bit 0 for ShiftRight and bit 7 for *)
(* ShiftLeft.                                                              *)
C7_ShiftFlag ==
    [][ /\ Executed("SHR") => v'[15] = v[OpX(opcode')] % 2
        /\ Executed("SHL") => v'[15] = v[OpX(opcode')] \div 128 ]_vars

(* C8.  Drawing the same sprite twice at the same position, nothing else   *)
(* changing in between, restores the framebuffer, and the second draw      *)
(* leaves VF = 1.                                                          *)
C8_DrawTwiceAsClaimed ==
    [][ (Executed("DRW") /\ v'[OpX(opcode')] = v[OpX(opcode')]
                         /\ v'[OpY(opcode')] = v[OpY(opcode')]) =>
            \A again \in {drw(Machine', opcode')} :
                /\ again.err = "None"
                /\ SameData(again.m.grid, grid)
                /\ again.m.v[15] = 1 ]_vars

(* C8, amended.  The second draw restores the framebuffer, and leaves      *)
(* VF = 1 exactly when the first draw turned at least one pixel on: VF is  *)
(* 0 after drawing twice a sprite of no rows or of no set bit, or one      *)
(* whose first draw only erased pixels.                                    *)
C8_DrawTwice ==
    [][ (Executed("DRW") /\ v'[OpX(opcode')] = v[OpX(opcode')]
                         /\ v'[OpY(opcode')] = v[OpY(opcode')]) =>
            \A again \in {drw(Machine', opcode')} :
                /\ again.err = "None"
                /\ SameData(again.m.grid, grid)
                /\ again.m.v[15] = 1
                        <=> \E k \in DOMAIN grid' : grid'[k] = 1 /\ Cell(grid, k) = 0
                /\ again.m.v[15] \in {0, 1} ]_vars

\* the second of two draws of a font sprite has run: the screen is blank again
C8_Witness ==
    /\ status = "Poll" /\ instruction = "DRW" /\ pc = 522
    /\ OpN(opcode) = 5 /\ i = 0
    /\ v[15] = 1
    /\ DOMAIN grid # {}
    /\ \A k \in DOMAIN grid : grid[k] = 0

(* C9.  StoreRegisters(x) with I + x < 4096 succeeds, stores V[0..x] at    *)
(* I .. I + x in order, changes no other byte of the memory and no V       *)
(* register, and leaves I at I + x + 1.                                    *)
C9_StoreRegisters ==
    [][ /\ (status = "Run" /\ fetch(Machine).err = "None"
                /\ decode(fetch(Machine).val) = "LDRIR"
                /\ i + OpX(fetch(Machine).val) < RAM_SIZE) => status' = "Poll"
        /\ Executed("LDRIR") =>
            LET x == OpX(opcode')
            IN  /\ i + x < RAM_SIZE
                /\ \A k \in 0..x : Cell(ram', i + k) = v[k]
                /\ \A a \in (DOMAIN ram) \cup (DOMAIN ram') :
                        (a < i \/ a > i + x) => Cell(ram', a) = Cell(ram, a)
                /\ v' = v
                /\ i' = i + x + 1 ]_vars

\* V0..V3 = 1, 2, 3, 4 have been stored at 0x300
C9_Witness ==
    /\ status = "Poll" /\ instruction = "LDRIR" /\ OpX(opcode) = 3
    /\ i = 772
    /\ <<Cell(ram, 768), Cell(ram, 769), Cell(ram, 770), Cell(ram, 771)>> = <<1, 2, 3, 4>>

(* C10.  The 80 font bytes at addresses 0..79 are what construction put    *)
(* there after any loads and any executed instructions.                    *)
C10_FontNeverChanges ==
    \A k \in 0..(RESERVED_SIZE - 1) : Cell(ram, k) = sprites[k + 1]

(* C10, amended.  Construction and load leave the font at 0..79; a font    *)
(* byte changes only when StoreBCD or StoreRegisters runs with I below 80, *)
(* and no other instruction changes one.                                   *)
C10_FontChangesOnlyByStores ==
    /\ \A k \in 0..(RESERVED_SIZE - 1) : ram[k] = sprites[k + 1]
    /\ [][ (\E k \in 0..(RESERVED_SIZE - 1) : Cell(ram', k) # Cell(ram, k)) =>
                /\ status = "Run"
                /\ instruction' \in {"LDB", "LDRIR"}
                /\ i < RESERVED_SIZE ]_vars

\* StoreRegisters with I = 0 has overwritten the first font bytes with V0..V3
C10_Witness ==
    /\ status = "Poll" /\ instruction = "LDRIR" /\ OpX(opcode) = 3
    /\ <<Cell(ram, 0), Cell(ram, 1), Cell(ram, 2), Cell(ram, 3)>> = <<1, 2, 3, 4>>

(* C11.  load(bytes) succeeds exactly when bytes has at most 4096 - 512 =  *)
(* 3584 bytes and fails with NotEnoughSpace otherwise; after a load that   *)
(* succeeded, read_byte(512 + i) is bytes[i] for every i below its length. *)
C11_Load ==
    [][ api'.op = "load" =>
            /\ api'.err = "None" <=> Len(api'.bytes) <= 3584
            /\ api'.err # "None" => api'.err = "NotEnoughSpace"
            /\ api'.err = "None" =>
                    \A k \in 1..Len(api'.bytes) :
                        read_byte(ram', 512 + k - 1)
                            = [val |-> api'.bytes[k], err |-> "None"] ]_vars

\* a slice of 3584 bytes has been loaded, up to the last byte of the memory
C11_Witness ==
    /\ api.op = "load" /\ api.err = "None"
    /\ Len(api.bytes) = 3584
    /\ Cell(ram, 4095) = api.bytes[3584]

(* C12.  load changes only the bytes at 512 .. 512 + len - 1: the font and *)
(* every other byte keep their values, and a load that fails changes no    *)
(* byte.                                                                   *)
C12_LoadFrame ==
    [][ api'.op = "load" =>
            \A a \in (DOMAIN ram) \cup (DOMAIN ram') :
                (api'.err # "None" \/ a < 512 \/ a >= 512 + Len(api'.bytes))
                    => Cell(ram', a) = Cell(ram, a) ]_vars

\* a short slice has been loaded over a memory whose last byte was set before
C12_Witness ==
    /\ api.op = "load" /\ api.err = "None" /\ api.n = 2
    /\ Len(api.bytes) = 4
    /\ Cell(ram, 4095) # 0

(* C13.  read_byte(a) and write_byte(a, v) succeed exactly when a < 4096,  *)
(* read_word(a) and write_word(a, v) exactly when a + 1 < 4096; any other  *)
(* access returns OutOfBound, and a write that fails leaves the memory as  *)
(* it was.                                                                 *)
C13_Bounds ==
    [][ /\ api'.op \in {"read_byte", "write_byte"} =>
                api'.err = (IF api'.address < 4096 THEN "None" ELSE "OutOfBound")
        /\ api'.op \in {"read_word", "write_word"} =>
                api'.err = (IF api'.address + 1 < 4096 THEN "None" ELSE "OutOfBound")
        /\ (api'.op \in {"write_byte", "write_word"} /\ api'.err # "None") =>
                SameData(ram', ram) ]_vars

\* a word write at the last address has been refused
C13_Witness ==
    /\ api.op = "write_word" /\ api.address = 4095 /\ api.err = "OutOfBound"
    /\ Cell(ram, 4095) = 0

(* C14.  write_word(a, v) with a + 1 < 4096, then read_word(a), returns v; *)
(* read_byte(a) is the high byte of v and read_byte(a + 1) its low byte,   *)
(* and no other byte of the memory changes.                                *)
C14_WordRoundTrip ==
    [][ /\ (api'.op = "write_word" /\ api'.address + 1 < 4096) =>
            /\ read_word(ram', api'.address) = [val |-> api'.value, err |-> "None"]
            /\ read_byte(ram', api'.address).val = api'.value \div 256
            /\ read_byte(ram', api'.address + 1).val = api'.value % 256
            /\ \A a \in (DOMAIN ram) \cup (DOMAIN ram') :
                    a \notin {api'.address, api'.address + 1}
                        => Cell(ram', a) = Cell(ram, a)
        /\ (api.op = "write_word" /\ api.err = "None"
                /\ api'.op = "read_word" /\ api'.address = api.address) =>
            api'.val = api.value ]_vars

\* 0xABCD has been written at 4094 and read back
C14_Witness ==
    /\ api.op = "read_word" /\ api.n = 2 /\ api.address = 4094
    /\ api.val = 43981
    /\ Cell(ram, 4094) = 171 /\ Cell(ram, 4095) = 205

(* C15.  Right after construction the bytes 0..79 are the font table of 16 *)
(* glyphs of 5 bytes, so that read_byte(0) is 0xF0 and read_word(0) is     *)
(* 0xF090, and every byte from 80 to 4095 is 0.                            *)
C15_FreshRam ==
    /\ api.n = 0 =>
        /\ Len(sprites) = 16 * 5
        /\ \A a \in 0..79 : read_byte(ram, a) = [val |-> sprites[a + 1], err |-> "None"]
        /\ \A a \in 80..4095 : read_byte(ram, a) = [val |-> 0, err |-> "None"]
    /\ (api.n = 1 /\ api.op = "read_byte" /\ api.address = 0) => api.val = 240
    /\ (api.n = 1 /\ api.op = "read_word" /\ api.address = 0) => api.val = 61584

\* the first call on a new Ram was read_word(0), and it returned 0xF090
C15_Witness ==
    api.n = 1 /\ api.op = "read_word" /\ api.address = 0 /\ api.val = 61584 /\ api.err = "None"

(* C16.  SkipIfPressed(x) adds 4 to PC exactly when a key is pressed and   *)
(* its value is V[x], and 2 otherwise; SkipIfNotPressed(x) adds 4 exactly  *)
(* when no key of value V[x] is pressed.  With no key pressed the first    *)
(* never skips and the second always skips, whatever V[x] is, 0 included.  *)
C16_KeySkips ==
    [][ \A pressed \in {get_pressed_key(key)} :
            /\ Executed("SKP") =>
                    pc' = pc + (IF pressed.some /\ pressed.val = v[OpX(opcode')]
                                THEN 4 ELSE 2)
            /\ Executed("SKNP") =>
                    pc' = pc + (IF ~(pressed.some /\ pressed.val = v[OpX(opcode')])
                                THEN 4 ELSE 2) ]_vars

\* the keys of the keypad, as press_key names them
HexKeycodes ==
    {"Num1", "Num2", "Num3", "Num4", "Q", "W", "E", "R",
     "A", "S", "D", "F", "Z", "X", "C", "V"}

(* C17.  LoadFromKey(x) always adds 2 to PC; when one of the 16 keys       *)
(* 0x0..0xF is the pressed key, V[x] becomes the value of that key, and    *)
(* when no key is pressed V[x] keeps its value.                            *)
C17_LoadFromKey ==
    [][ Executed("LDK") =>
            /\ pc' = pc + 2
            /\ (polled # << >> /\ polled[Len(polled)].type = "KeyDown"
                    /\ polled[Len(polled)].keycode \in HexKeycodes) =>
                    v'[OpX(opcode')] = press_key(KeyboardNew, polled[Len(polled)].keycode)
            /\ (polled = << >> /\ ~get_pressed_key(key).some) => v' = v ]_vars

(* C18.  With the base b set by SetDelay at time t0, a LoadFromDelay at    *)
(* e >= 0 ms after t0 stores max(0, b - floor(e / 16)): a read is never    *)
(* above the read before it, never below 0, and 0 from e = 16 * b on.      *)
C18_DelayTimer ==
    [][ /\ Executed("LDDTR") => dt' = v[OpX(opcode')] /\ delay_timer' = now'
        /\ Executed("LDRDT") =>
            \A e \in {now' - delay_timer} :
                /\ e >= 0
                /\ v'[OpX(opcode')] = (IF dt - (e \div 16) > 0 THEN dt - (e \div 16) ELSE 0)
                /\ e >= 16 * dt => v'[OpX(opcode')] = 0
                /\ dt' = dt /\ delay_timer' = delay_timer
        /\ (Executed("LDRDT") /\ instruction = "LDRDT") =>
                v'[OpX(opcode')] <= v[OpX(opcode)] ]_vars

\* a base of 3 has been read as 1, 32 to 47 ms after it was set
C18_Witness ==
    /\ status = "Poll" /\ instruction = "LDRDT"
    /\ dt = 3 /\ v[OpX(opcode)] = 1
    /\ now - delay_timer \in 32..47

\* a Quit event or a key-down of Escape is among the events evs
HasQuit(evs) ==
    \E k \in 1..Len(evs) :
        evs[k].type = "Quit" \/ (evs[k].type = "KeyDown" /\ evs[k].keycode = "Escape")

(* C19.  Every cycle of run() looks at the events before it fetches: when  *)
(* a quit or Escape event is among them run() ends with success and no     *)
(* instruction is fetched or executed any more; an instruction is only     *)
(* executed in a cycle whose events held none.                             *)
C19_QuitChecked ==
    [][ /\ status # "Quit"
        /\ status = "Poll" =>
            /\ status' = (IF HasQuit(polled') THEN "Quit" ELSE "Run")
            /\ <<pc, i, v, sp, ram, grid, opcode, instruction>>'
                    = <<pc, i, v, sp, ram, grid, opcode, instruction>>
        /\ status = "Run" => ~HasQuit(polled) /\ status' # "Run" ]_vars

\* after at least one instruction, a cycle met a quit event behind a key press
C19_Witness ==
    /\ status = "Quit"
    /\ polled = <<KeyDown("Num1"), Quit>>
    /\ instruction = "JMP"

\* the memory holds the program 00 E0 12 00 and nothing else but the font
ClearJumpProgram == ram = load(RamNew, <<0, 224, 18, 0>>).ram

(* C20.  The program 00 E0 12 00, run from 0x200, never fails: Clear runs  *)
(* first and leaves the framebuffer off and PC at 0x202, Jump sets PC to   *)
(* 0x200, and as long as no quit event comes the next instruction can      *)
(* always be executed, with PC always 0x200 or 0x202.                      *)
C20_ClearJumpLoop ==
    /\ [](ClearJumpProgram =>
            /\ status \in {"Poll", "Run", "Quit"}
            /\ pc \in {512, 514}
            /\ \A k \in DOMAIN grid : grid[k] = 0
            /\ status = "Run" => ENABLED ExecuteCycle)
    /\ [][ ClearJumpProgram =>
            /\ (status = "Run" /\ instruction = "None") => instruction' = "CLS"
            /\ status = "Run" => status' = "Poll"
            /\ Executed("CLS") => pc = 512 /\ pc' = 514
            /\ Executed("JMP") => pc = 514 /\ pc' = 512 ]_vars

\* the Jump of the program has run a second time
C20_Witness ==
    /\ ClearJumpProgram
    /\ status = "Poll" /\ instruction = "JMP" /\ pc = 512
    /\ polled = << >>

\* the framebuffer index of the cell in column x of row y
CellAt(x, y) == y * GRID_WIDTH + x

(* C21.  Every framebuffer cell holds 0 or 1 and lies inside the 64 x 32   *)
(* grid, and every cell a Draw addresses (get_pixel and set_pixel are      *)
(* called on the same cell) has its column in [0, 64) and its row in       *)
(* [0, 32): it is the cell at column (V[x] + bit) mod 64 of row            *)
(* (V[y] + row) mod 32 for a row and a bit of the sprite, whatever the     *)
(* position registers hold.                                                *)
C21_PixelBounds ==
    /\ [](\A k \in DOMAIN grid :
            k \in 0..(GRID_WIDTH * GRID_HEIGHT - 1) /\ grid[k] \in {0, 1})
    /\ [][ (status = "Run" /\ instruction' = "DRW") =>
            \A k \in (DOMAIN grid') \ (DOMAIN grid) :
                \E x \in 0..(GRID_WIDTH - 1), y \in 0..(GRID_HEIGHT - 1) :
                    /\ k = CellAt(x, y)
                    /\ \E bit \in 0..7 :
                        x = (v[OpX(opcode')] + bit) % GRID_WIDTH
                    /\ \E row \in 0..(OpN(opcode') - 1) :
                        y = (v[OpY(opcode')] + row) % GRID_HEIGHT ]_vars

\* a 15-row sprite drawn at (255, 255) has wrapped at both edges: lit cells
\* in the last and in the first row
C21_Witness ==
    /\ status = "Poll" /\ instruction = "DRW" /\ pc = 520
    /\ v[0] = 255 /\ v[1] = 255 /\ OpN(opcode) = 15 /\ i = 0
    /\ \E x \in 0..(GRID_WIDTH - 1) :
        Cell(grid, CellAt(x, GRID_HEIGHT - 1)) = 1
    /\ \E x \in 0..(GRID_WIDTH - 1) : Cell(grid, CellAt(x, 0)) = 1
    /\ Cell(grid, CellAt(GRID_WIDTH - 1, GRID_HEIGHT - 1)) = 1

(* C22.  SubBorrow(x, y) with x other than 0xF sets V[x] to                *)
(* (V[x] - V[y]) mod 256, and VF to 1 if the old V[x] is less than the old *)
(* V[y] (the difference before wrapping is negative) and to 0 otherwise.   *)
C22_SubBorrow ==
    [][ (Executed("SUB") /\ OpX(opcode') # 15) =>
            /\ v'[OpX(opcode')] = (v[OpX(opcode')] - v[OpY(opcode')]) % U8
            /\ v'[15] = IF v[OpX(opcode')] < v[OpY(opcode')] THEN 1 ELSE 0 ]_vars

(* C23.  SubnBorrow(x, y) with x other than 0xF completes for all values   *)
(* of V[x] and V[y], sets V[x] to (V[y] - V[x]) mod 256, and VF to 1 if    *)
(* the old V[y] is less than the old V[x] and to 0 otherwise.              *)
C23_SubnBorrow ==
    [][ (status = "Run" /\ instruction' = "SUBN" /\ OpX(opcode') # 15) =>
            /\ status' = "Poll"
            /\ v'[OpX(opcode')] = (v[OpY(opcode')] - v[OpX(opcode')]) % U8
            /\ v'[15] = IF v[OpY(opcode')] < v[OpX(opcode')] THEN 1 ELSE 0 ]_vars

(* C24.  StoreBCD(x) with I + 2 < 4096 stores at I, I + 1, I + 2 the       *)
(* hundreds, tens and ones digits of V[x]: each byte is in 0..9 and        *)
(* 100 * mem[I] + 10 * mem[I + 1] + mem[I + 2] = V[x].                     *)
C24_StoreBCD ==
    [][ (Executed("LDB") /\ i + 2 < RAM_SIZE) =>
            /\ \A k \in 0..2 : Cell(ram', i + k) \in 0..9
            /\ 100 * Cell(ram', i) + 10 * Cell(ram', i + 1) + Cell(ram', i + 2)
                 = v[OpX(opcode')] ]_vars

\* the cell a Draw at (x_pos, y_pos) gives to bit `bit` of sprite row `row`
Target(x_pos, y_pos, row, bit) ==
    CellAt((x_pos + bit) % GRID_WIDTH, (y_pos + row) % GRID_HEIGHT)

\* bit `bit` of the sprite row at address, bit 0 being the most significant
SpriteBit(data, address, bit) == (Cell(data, address) \div (2 ^ (7 - bit))) % 2

(* C25.  A Draw(x, y, n) that succeeds sets each cell at column            *)
(* (V[x] + bit) mod 64 of row (V[y] + row) mod 32, for row < n and         *)
(* bit < 8, to its old value XOR bit `bit` of the sprite byte at I + row   *)
(* (bit 7 of the byte being the leftmost pixel), leaves every other cell   *)
(* as it was, and leaves VF = 1 if some cell was on where the sprite bit   *)
(* is on, VF = 0 otherwise.  V[x] and V[y] are the values before the draw. *)
C25_Draw ==
    [][ Executed("DRW") =>
            LET x_pos == v[OpX(opcode')]
                y_pos == v[OpY(opcode')]
                rows == 0..(OpN(opcode') - 1)
            IN  /\ \A row \in rows, bit \in 0..7 :
                    Cell(grid', Target(x_pos, y_pos, row, bit))
                      = BitXor(Cell(grid, Target(x_pos, y_pos, row, bit)),
                               SpriteBit(ram, i + row, bit))
                /\ \A k \in (DOMAIN grid) \cup (DOMAIN grid') :
                    (\A row \in rows, bit \in 0..7 :
                        k # Target(x_pos, y_pos, row, bit))
                    => Cell(grid', k) = Cell(grid, k)
                /\ v'[15] = IF \E row \in rows, bit \in 0..7 :
                                /\ Cell(grid, Target(x_pos, y_pos, row, bit)) = 1
                                /\ SpriteBit(ram, i + row, bit) = 1
                            THEN 1 ELSE 0 ]_vars

\* a font sprite drawn across the right and bottom edges has been drawn a
\* second time over itself: every cell is off again and VF = 1
C25_Witness ==
    /\ status = "Poll" /\ instruction = "DRW" /\ pc = 522
    /\ v[0] = 60 /\ v[1] = 30 /\ OpN(opcode) = 5 /\ i = 0
    /\ v[15] = 1
    /\ Target(60, 30, 4, 7) \in DOMAIN grid
    /\ \A k \in DOMAIN grid : grid[k] = 0

(* C27.  AddToIndex(x) completes in every state it can run in, sets I to   *)
(* (I + V[x]) mod 2^16, and changes no V register (VF included), nor the   *)
(* call stack or the delay register.                                       *)
C27_AddToIndex ==
    [][ (status = "Run" /\ instruction' = "ADDRI") =>
            /\ status' = "Poll"
            /\ i' = (i + v[OpX(opcode')]) % U16
            /\ v' = v /\ sp' = sp /\ dt' = dt ]_vars

(* C26.  Call and Return are matched last in, first out.  Call(nnn) at     *)
(* address a pushes a + 2 and sets PC to nnn; Return pops the newest entry *)
(* into PC and leaves the entries below it as they were; no other          *)
(* instruction changes the stack.  So the Return that pops the entry of a  *)
(* Call sets PC to a + 2 with the stack as it was before that Call, and k  *)
(* nested Calls followed by k Returns return to the call sites in reverse  *)
(* order, at any depth (no limit of 16 levels).                            *)
C26_CallReturn ==
    /\ [](\A k \in 1..Len(sp) :
            /\ sp[k] >= WORD_SIZE
            /\ decode(read_word(ram, sp[k] - WORD_SIZE).val) = "CALL")
    /\ [][ /\ Executed("CALL") =>
                /\ sp' = Append(sp, pc + WORD_SIZE)
                /\ pc' = OpNNN(opcode')
           /\ Executed("RET") =>
                /\ sp # << >>
                /\ pc' = sp[Len(sp)]
                /\ Append(sp', pc') = sp
           /\ (~Executed("CALL") /\ ~Executed("RET")) => sp' = sp ]_vars

\* more than 16 Calls were nested and every one of them has returned: the
\* last Return has come back to the first call site with the stack empty
C26_Witness ==
    /\ status = "Poll" /\ instruction = "RET"
    /\ v[0] = MaxStack /\ MaxStack > 16
    /\ sp = << >> /\ pc = 514

(* C28.  JumpAddV0(nnn) sets PC to V[0] + nnn, unmasked, so PC may be any  *)
(* value up to 4350; the address is never wrapped into [0, 4096).  When    *)
(* the fetch that follows finds PC >= 4095 it fails with OutOfBound and    *)
(* the run loop ends with that error, PC unchanged.                        *)
C28_JumpAddV0 ==
    [][ /\ Executed("JMPV0") => pc' = v[0] + OpNNN(opcode')
        /\ (status = "Run" /\ pc >= RAM_SIZE - 1) =>
                status' = "OutOfBound" /\ pc' = pc ]_vars

\* V0 = 255 and JumpAddV0(0xFFF) have set PC to 4350, and the fetch there
\* has ended the run
C28_Witness ==
    status = "OutOfBound" /\ opcode = Op(11, 15, 15, 15) /\ pc = 4350

(* C29.  Fetch and decode change nothing.  When a cycle ends because the   *)
(* fetch at PC is out of bounds, or because the fetched word does not      *)
(* decode, the run ends with that error and PC, I, V0..VF, the call stack, *)
(* the memory, the framebuffer and the key state are what they were when   *)
(* the cycle's fetch began.                                                *)
C29_FetchDecodeFrame ==
    [][ /\ (status = "Run" /\ fetch(Machine).err # "None") =>
                /\ status' = "OutOfBound"
                /\ Machine' = Machine
        /\ (status = "Run" /\ fetch(Machine).err = "None"
                /\ decode(fetch(Machine).val) = "FailedToDecodeOpcode") =>
                /\ status' = "FailedToDecodeOpcode"
                /\ Machine' = Machine ]_vars

\* a program has set registers and drawn, then run off its end into a word
\* that does not decode: the registers and the picture are still there
C29_Witness ==
    /\ status = "FailedToDecodeOpcode" /\ opcode = 0 /\ pc = 524
    /\ v[0] = 60 /\ v[1] = 30 /\ i = 0
    /\ \E k \in DOMAIN grid : grid[k] = 1

(* C30.  Load, Add, Assign, Or, And and Xor complete and change only V[x]  *)
(* and PC: I, the call stack, the memory, the framebuffer, the key state,  *)
(* the timer and every other V register (VF too when x is not 0xF) stay as *)
(* they were, PC advances by 2, and Add(x, kk) sets V[x] to                *)
(* (V[x] + kk) mod 256.                                                    *)
C30_RegisterOpsFrame ==
    [][ (status = "Run"
            /\ instruction' \in {"LD", "ADD", "LDR", "OR", "AND", "XOR"}) =>
            /\ status' = "Poll"
            /\ pc' = pc + WORD_SIZE
            /\ \A r \in (0..15) \ {OpX(opcode')} : v'[r] = v[r]
            /\ [Machine' EXCEPT !.pc = pc, !.v = v] = Machine
            /\ instruction' = "ADD" =>
                v'[OpX(opcode')] = (v[OpX(opcode')] + OpKK(opcode')) % U8 ]_vars

\* Add(0, 0xFF) on V0 = 0xFF has wrapped to 0xFE and VF is still 0
C30_Witness ==
    /\ status = "Poll" /\ instruction = "ADD" /\ opcode = Op(7, 0, 15, 15)
    /\ v[0] = 254 /\ v[15] = 0 /\ pc = 516

Overwritten(vv, x) ==
    { [k \in 0..15 |-> IF k <= x THEN c ELSE vv[k]] : c \in {0, 255} }
    \cup { [k \in 0..15 |-> IF k <= x THEN (vv[k] + 1 + k) % U8 ELSE vv[k]] }
    \cup { vv }

(* C32.  StoreRegisters(x) and LoadRegisters(x) round-trip.  After a       *)
(* StoreRegisters(x) that succeeded from index I (so I + x < 4096),        *)
(* whatever V[0..x] are changed to, once I is set back to its value at the *)
(* store a LoadRegisters(x) succeeds, gives V[0..x] the values they had at *)
(* the store, leaves V[x+1..15] as the load found them, and leaves         *)
(* I = original I + x + 1.                                                 *)
C32_StoreLoadRoundTrip ==
    [][ Executed("LDRIR") =>
            \A w \in Overwritten(v', OpX(opcode')) :
                \A r \in {ldrri([Machine' EXCEPT !.v = w, !.i = i],
                                Op(15, OpX(opcode'), 6, 5))} :
                    /\ i + OpX(opcode') < RAM_SIZE
                    /\ r.err = "None"
                    /\ \A k \in 0..OpX(opcode') : r.m.v[k] = v[k]
                    /\ \A k \in (OpX(opcode') + 1)..15 : r.m.v[k] = w[k]
                    /\ r.m.i = i + OpX(opcode') + 1 ]_vars

\* V0..V3 = 1, 2, 3, 4 were stored at 0x300, overwritten with 0x99..0x96
\* together with VF, and loaded back: V0..V3 are 1, 2, 3, 4 again, VF keeps
\* its new value and I is 0x304
C32_Witness ==
    /\ status = "Poll" /\ instruction = "LDRRI" /\ opcode = Op(15, 3, 6, 5)
    /\ pc = 540
    /\ v[0] = 1 /\ v[1] = 2 /\ v[2] = 3 /\ v[3] = 4 /\ v[15] = 149
    /\ i = 772

====
